---------------------------- MODULE Spec2Model ----------------------------
(***************************************************************************)
(* Model of the geometric coverage-planning engine of the Fire             *)
(* Extinguisher Planner (src/Fire_Extinguisher_Planner.py):                *)
(* generate_multiple_solutions, calculate_grid_placement,                  *)
(* calculate_hex_placement, ensure_coverage, find_internal_spot and        *)
(* check_geometric_coverage.                                               *)
(*                                                                         *)
(* Numbers.  The program computes with floats in feet.  The model computes *)
(* in fixed point: a length is an integer number of 1/Scale feet, and each *)
(* float product or quotient is one integer operation rounded down to that *)
(* resolution.  Polygons have integer-feet vertices, as the snapping       *)
(* canvas produces them.  Squared distances are compared instead of        *)
(* distances wherever the program compares distances.                      *)
(***************************************************************************)
EXTENDS Integers, Sequences, FiniteSets

\* Resolution of the fixed-point arithmetic: units per foot.
Scale == 100

(***************************************************************************)
(* Small arithmetic helpers                                                *)
(***************************************************************************)
Abs(a) == IF a < 0 THEN 0 - a ELSE a

Min2(a, b) == IF a <= b THEN a ELSE b

Max2(a, b) == IF a >= b THEN a ELSE b

SetMin(S) == CHOOSE m \in S : \A n \in S : m <= n

SetMax(S) == CHOOSE m \in S : \A n \in S : m >= n

\* floor of the square root of 0 <= n < 46000 ^ 2, found in two rounds: the
\* multiple of 216 below it, then the root
ISqrt(n) ==
    LET h == CHOOSE a \in 0..212 :
                 /\ (a * 216) * (a * 216) <= n
                 /\ n < ((a + 1) * 216) * ((a + 1) * 216)
    IN  CHOOSE k \in (h * 216)..(h * 216 + 215) :
            k * k <= n /\ n < (k + 1) * (k + 1)

\* math.hypot(vec_x, vec_y), rounded down to the resolution
Hypot(vx, vy) == ISqrt(vx * vx + vy * vy)

(***************************************************************************)
(* Polygon utilities (the shapely operations the program calls).           *)
(* A polygon is a sequence of at least 3 vertices <<x, y>> in integer      *)
(* feet, without the closing repeat of the first vertex.                   *)
(***************************************************************************)
ToUnits(v) == <<v[1] * Scale, v[2] * Scale>>

Succ(poly, k) == IF k = Len(poly) THEN 1 ELSE k + 1

\* poly.exterior.coords: the ring in units, closed by repeating the first vertex
ExteriorCoords(poly) ==
    [k \in 1..(Len(poly) + 1) |->
        IF k = Len(poly) + 1 THEN ToUnits(poly[1]) ELSE ToUnits(poly[k])]

\* poly.bounds = (minx, miny, maxx, maxy), in units
Bounds(poly) ==
    LET xs == {poly[k][1] * Scale : k \in 1..Len(poly)}
        ys == {poly[k][2] * Scale : k \in 1..Len(poly)}
    IN  [minx |-> SetMin(xs), miny |-> SetMin(ys),
         maxx |-> SetMax(xs), maxy |-> SetMax(ys)]

\* twice the signed area (shoelace), in square feet
RECURSIVE ShoelaceSum(_, _)
ShoelaceSum(poly, k) ==
    IF k = 0 THEN 0
    ELSE LET a == poly[k]
             b == poly[Succ(poly, k)]
         IN  (a[1] * b[2] - b[1] * a[2]) + ShoelaceSum(poly, k - 1)

Area2(poly) == ShoelaceSum(poly, Len(poly))

Cross(a, b, p) == (b[1] - a[1]) * (p[2] - a[2]) - (b[2] - a[2]) * (p[1] - a[1])

\* p lies on the closed segment a-b
OnSegment(a, b, p) ==
    /\ Cross(a, b, p) = 0
    /\ Min2(a[1], b[1]) <= p[1] /\ p[1] <= Max2(a[1], b[1])
    /\ Min2(a[2], b[2]) <= p[2] /\ p[2] <= Max2(a[2], b[2])

OnBoundary(poly, p) ==
    \E k \in 1..Len(poly) :
        OnSegment(ToUnits(poly[k]), ToUnits(poly[Succ(poly, k)]), p)

\* the edge a-b crosses the horizontal ray from p towards +x
RayCrosses(a, b, p) ==
    /\ (a[2] > p[2]) # (b[2] > p[2])
    /\ IF b[2] > a[2] THEN Cross(a, b, p) > 0 ELSE Cross(a, b, p) < 0

CrossingCount(poly, p) ==
    Cardinality({k \in 1..Len(poly) :
        RayCrosses(ToUnits(poly[k]), ToUnits(poly[Succ(poly, k)]), p)})

\* poly.contains(Point(p)): p is in the interior; a boundary point is not contained
Contains(poly, p) ==
    /\ ~OnBoundary(poly, p)
    /\ CrossingCount(poly, p) % 2 = 1

\* poly.centroid, in units
RECURSIVE CentroidSum(_, _, _)
CentroidSum(poly, k, c) ==
    IF k = 0 THEN 0
    ELSE LET a == poly[k]
             b == poly[Succ(poly, k)]
         IN  (a[c] + b[c]) * (a[1] * b[2] - b[1] * a[2])
                 + CentroidSum(poly, k - 1, c)

Centroid(poly) ==
    LET n == Len(poly)
        d == 3 * Area2(poly)
    IN  <<(CentroidSum(poly, n, 1) * Scale) \div d,
          (CentroidSum(poly, n, 2) * Scale) \div d>>


(***************************************************************************)
(* poly.representative_point(): the interior point the geometry library    *)
(* computes.  It scans the horizontal line midway between the two vertex   *)
(* ordinates nearest the centre of the bounding box, and returns the       *)
(* midpoint of the widest section of that line inside the polygon; for a   *)
(* polygon the line does not cross (zero area) it is the first vertex.     *)
(***************************************************************************)
ScanLineY(poly) ==
    LET b == Bounds(poly)
        centreY == (b.miny + b.maxy) \div 2
        ys == {poly[k][2] * Scale : k \in 1..Len(poly)}
        loY == SetMax({yy \in ys : yy <= centreY} \cup {b.miny})
        hiY == SetMin({yy \in ys : yy > centreY} \cup {b.maxy})
    IN  (hiY + loY) \div 2

\* abscissa where the edge a-b meets the scan line, or the empty sequence
EdgeCrossing(a, b, scanY) ==
    IF a[2] = b[2] THEN <<>>
    ELSE IF scanY < Min2(a[2], b[2]) \/ scanY > Max2(a[2], b[2]) THEN <<>>
    ELSE IF (a[2] > b[2] /\ scanY = a[2]) \/ (a[2] < b[2] /\ scanY = b[2]) THEN <<>>
    ELSE <<a[1] + ((scanY - a[2]) * (b[1] - a[1])) \div (b[2] - a[2])>>

RECURSIVE Crossings(_, _, _)
Crossings(poly, k, scanY) ==
    IF k = 0 THEN <<>>
    ELSE Crossings(poly, k - 1, scanY)
            \o EdgeCrossing(ToUnits(poly[k]), ToUnits(poly[Succ(poly, k)]), scanY)

\* position of s[k] in ascending order; equal values keep their order
RankIn(s, k) ==
    1 + Cardinality({j \in 1..Len(s) : s[j] < s[k] \/ (s[j] = s[k] /\ j < k)})

SortAscending(s) ==
    [r \in 1..Len(s) |-> s[CHOOSE k \in 1..Len(s) : RankIn(s, k) = r]]

\* the widest section [x1, x2] among the pairs of sorted crossings; the first
\* of equally wide sections wins
RECURSIVE BestSection(_, _, _)
BestSection(cr, k, best) ==
    IF k + 1 > Len(cr) THEN best
    ELSE IF cr[k + 1] - cr[k] > best.width
         THEN BestSection(cr, k + 2,
                  [width |-> cr[k + 1] - cr[k], found |-> TRUE,
                   x |-> (cr[k] + cr[k + 1]) \div 2])
         ELSE BestSection(cr, k + 2, best)

\* the interior point on the scan line with the sorted crossings cr
SectionPoint(poly, scanY, cr) ==
    LET best == BestSection(cr, 1, [width |-> 0, found |-> FALSE, x |-> 0])
    IN  IF best.found THEN <<best.x, scanY>> ELSE ToUnits(poly[1])

\* the scan line and its crossings are computed once each (the singleton
\* sets bind their values)
ScanPoint(poly, scanY) ==
    CHOOSE p \in {SectionPoint(poly, scanY, cr) :
                    cr \in {SortAscending(c) :
                              c \in {Crossings(poly, Len(poly), scanY)}}} : TRUE

RepresentativePoint(poly) ==
    CHOOSE p \in {ScanPoint(poly, scanY) : scanY \in {ScanLineY(poly)}} : TRUE

(***************************************************************************)
(* Distances.  MultiPoint(points).distance(pt) is the distance from pt to  *)
(* the nearest point; the model keeps its square.                          *)
(***************************************************************************)
Dist2(p, q) == (p[1] - q[1]) * (p[1] - q[1]) + (p[2] - q[2]) * (p[2] - q[2])

\* mp.distance(pt) ** 2, for a non-empty point list
NearestDist2(pts, pt) == SetMin({Dist2(pts[k], pt) : k \in 1..Len(pts)})

\* faulty variant: no vertex is ever found uncovered
DistanceExceeds_Never(pts, pt, r) == FALSE

\* mp.distance(pt) > radius; the distance to an empty MultiPoint exceeds nothing
DistanceExceeds(pts, pt, r) ==
    /\ pts # <<>>
    /\ r < 0 \/ NearestDist2(pts, pt) > r * r

(***************************************************************************)
(* Inputs of the calls the model makes                                     *)
(***************************************************************************)
\* a 12 x 8 rectangle
Rect == <<<<0, 0>>, <<12, 0>>, <<12, 8>>, <<0, 8>>>>

\* a right triangle
Tri == <<<<0, 0>>, <<9, 0>>, <<0, 6>>>>

\* an L-shaped (non-convex) room whose centroid lies outside it
Ell == <<<<0, 0>>, <<12, 0>>, <<12, 2>>, <<2, 2>>, <<2, 12>>, <<0, 12>>>>

\* a degenerate triangle of zero area
Sliver == <<<<0, 0>>, <<4, 0>>, <<8, 0>>>>

\* polygons of positive area handed to generate_multiple_solutions
Polygons == {Rect, Tri, Ell}

\* base radii (feet) and safety factors (percent) of the calls
BaseRadii == {0 - 40, 0 - 4, 0, 2, 6, 10, 40}

SafetyFactors == {50, 100}

\* every turn of the ring is in the same direction
IsConvex(poly) ==
    LET turn(k) == Cross(poly[k], poly[Succ(poly, k)],
                         poly[Succ(poly, Succ(poly, k))])
    IN  \/ \A k \in 1..Len(poly) : turn(k) >= 0
        \/ \A k \in 1..Len(poly) : turn(k) <= 0

(***************************************************************************)
(* State                                                                   *)
(***************************************************************************)
VARIABLES
    pc,               \* position of the call in progress
    poly,             \* generate_multiple_solutions: the polygon
    gms_radius,       \* generate_multiple_solutions: radius (units)
    safety_factor,    \* generate_multiple_solutions: safety_factor (percent)
    solutions,        \* generate_multiple_solutions: solutions
    radius,           \* radius parameter of the generator and of the repair
    offset_ratio,     \* calculate_grid_placement: offset_ratio (percent, both axes)
    x, y, row,        \* scan variables of the generators
    points,           \* the generator's points
    final_points,     \* ensure_coverage: final_points
    tp,               \* ensure_coverage: index of tp in test_points
    vertex_pt,        \* find_internal_spot: vertex_pt
    target,           \* find_internal_spot: target
    dist,             \* find_internal_spot: dist
    i,                \* find_internal_spot: loop index
    calls             \* history: the calls made so far, with their radius

VARIABLES
    v_poly,           \* check_geometric_coverage: poly
    v_points,         \* check_geometric_coverage: points
    v_radius,         \* check_geometric_coverage: radius (units)
    v_safety_factor,  \* check_geometric_coverage: safety_factor (percent)
    geometry_fault,   \* the geometry operations on these inputs raise
    verdict,          \* what the call of the verifier in the last handler did
    current_warnings  \* update_result: display_meta['current_warnings']

VARIABLES
    cad_points,            \* CADCanvas.points, in feet (get_coordinates_in_ft)
    polygon_closed,        \* CADCanvas.polygon_closed
    drawing_active,        \* CADCanvas.drawing_active
    last_polygon,          \* MainWindow.last_polygon; <<>> stands for None
    generated_solutions,   \* MainWindow.generated_solutions
    current_solution_idx,  \* MainWindow.current_solution_idx
    last_analysis_meta,    \* MainWindow.last_analysis_meta
    prev_enabled,          \* prev_btn.isEnabled()
    next_enabled,          \* next_btn.isEnabled()
    uncaught,              \* the exception that left the last handler, or "none"
    event,                 \* history: the last handler run, its argument and outcome
    solutions_poly         \* history: the polygon generated_solutions was made from

verVars == <<v_poly, v_points, v_radius, v_safety_factor, geometry_fault,
             verdict, current_warnings>>

winVars == <<cad_points, polygon_closed, drawing_active, last_polygon,
             generated_solutions, current_solution_idx, last_analysis_meta,
             prev_enabled, next_enabled, uncaught, event, solutions_poly>>

coreVars == <<pc, poly, gms_radius, safety_factor, solutions, radius,
              offset_ratio, x, y, row, points, final_points, tp, vertex_pt,
              target, dist, i, calls>>

(***************************************************************************)
(* Program constants                                                       *)
(***************************************************************************)
\* spacing = radius * 1.414 * 0.95
GridFactorMilli == 1414

\* spacing_x = radius * 1.732 * 0.95
HexFactorXMilli == 1732

\* spacing_y = radius * 1.5 * 0.95
HexFactorYMilli == 1500

\* the 0.95 of the three spacings
ShrinkPercent == 95

\* find_internal_spot walks in steps of 2.0
StepLength == 2

\* the scan of a non-positive radius never ends: the model follows it while
\* the scan variable stays within ScanLimit units of the origin
ScanLimit == 1000

Names == <<"Option A: Standard Grid", "Option B: Offset Grid",
           "Option C: Hexagonal Packing">>

\* the record of a call of the verifier: whether it was made, its effective
\* radius, what it returned, whether it logged an error, whether an
\* exception left it
NotCalled ==
    [called |-> FALSE, effective_r |-> 0, ret |-> FALSE, logged |-> FALSE,
     raised |-> FALSE]

\* last_analysis_meta = {}
NoMeta == [set |-> FALSE, req_dist |-> 0, safety_factor |-> 100]

\* no handler has run yet
NoEvent == [handler |-> "none", arg |-> 0, outcome |-> "none"]

\* MainWindow.__init__ and CADCanvas.__init__
WindowIdle ==
    /\ cad_points = <<>>
    /\ polygon_closed = FALSE
    /\ drawing_active = TRUE
    /\ last_polygon = <<>>
    /\ generated_solutions = <<>>
    /\ current_solution_idx = 0
    /\ last_analysis_meta = NoMeta
    /\ prev_enabled = TRUE
    /\ next_enabled = TRUE
    /\ uncaught = "none"
    /\ event = NoEvent
    /\ solutions_poly = <<>>

\* the verifier's variables while no call of it is modelled
VerifierIdle ==
    /\ v_poly = Sliver
    /\ v_points = <<>>
    /\ v_radius = 0
    /\ v_safety_factor = 100
    /\ geometry_fault = FALSE
    /\ verdict = NotCalled
    /\ current_warnings = <<>>

(***************************************************************************)
(* generate_multiple_solutions                                             *)
(***************************************************************************)
\* faulty variant: the safety factor is not applied
EffectiveRadius_NoFactor(r, sf) == r

\* effective_radius = radius * safety_factor
EffectiveRadius(r, sf) == (r * sf) \div 100

\* faulty variant: the diagonal factor 1.414 is left out
GridSpacing_NoDiagonal(r) == (r * ShrinkPercent) \div 100

\* spacing = radius * 1.414 * 0.95
GridSpacing(r) == (r * GridFactorMilli * ShrinkPercent) \div 100000

\* spacing_x = radius * 1.732 * 0.95
HexSpacingX(r) == (r * HexFactorXMilli * ShrinkPercent) \div 100000

\* spacing_y = radius * 1.5 * 0.95
HexSpacingY(r) == (r * HexFactorYMilli * ShrinkPercent) \div 100000

WithinScan(v) == Abs(v) <= ScanLimit * Scale

\* faulty variant: the scan variable is not advanced
Advance_Forgotten(v, step) == v

\* y += spacing, x += spacing, x += spacing_x, y += spacing_y
Advance(v, step) == v + step

\* faulty variant: the offset of the lattice is dropped
GridStart_NoOffset(lo, s, ratio) == lo

\* start_x = minx + (spacing * offset_ratio[0]), start_y likewise
GridStart(lo, s, ratio) == lo + (s * ratio) \div 100

generate_multiple_solutions ==
    /\ pc = "call"
    /\ solutions' = <<>>
    /\ radius' = EffectiveRadius(gms_radius, safety_factor)
    /\ pc' = "s1"
    /\ UNCHANGED <<poly, gms_radius, safety_factor, offset_ratio, x, y, row,
                   points, final_points, tp, vertex_pt, i, calls>>
    /\ UNCHANGED verVars
    /\ UNCHANGED winVars
    /\ UNCHANGED <<target, dist>>

(***************************************************************************)
(* calculate_grid_placement                                                *)
(***************************************************************************)
calculate_grid_placement ==
    /\ pc \in {"s1", "s2"}
    /\ offset_ratio' = IF pc = "s1" THEN 0 ELSE 50
    /\ points' = <<>>
    /\ x' = GridStart(Bounds(poly).minx, GridSpacing(radius), offset_ratio')
    /\ pc' = "grid_x"
    /\ calls' = Append(calls, <<"calculate_grid_placement", radius, offset_ratio'>>)
    /\ UNCHANGED <<poly, gms_radius, safety_factor, solutions, radius, y, row,
                   final_points, tp, vertex_pt, i>>
    /\ UNCHANGED verVars
    /\ UNCHANGED winVars
    /\ UNCHANGED <<target, dist>>

\* faulty variant: every lattice point of the scan is kept
KeepInside_All(pl, pts, q) == Append(pts, q)

\* if poly.contains(p): points.append(p)
KeepInside(pl, pts, q) == IF Contains(pl, q) THEN Append(pts, q) ELSE pts

\* while x < maxx + spacing: y = start_y ...; after the loop, ensure_coverage
grid_outer ==
    /\ pc = "grid_x"
    /\ IF x < Bounds(poly).maxx + GridSpacing(radius)
       THEN /\ y' = GridStart(Bounds(poly).miny, GridSpacing(radius), offset_ratio)
            /\ pc' = "grid_y"
       ELSE /\ pc' = "ensure"
            /\ y' = y
    /\ UNCHANGED <<poly, gms_radius, safety_factor, solutions, radius,
                   offset_ratio, x, row, points, final_points, tp, vertex_pt,
                   i, calls>>
    /\ UNCHANGED verVars
    /\ UNCHANGED winVars
    /\ UNCHANGED <<target, dist>>

\* while y < maxy + spacing: keep (x, y) if contained; y += spacing
\* after the loop: x += spacing
grid_inner ==
    /\ pc = "grid_y"
    /\ IF y < Bounds(poly).maxy + GridSpacing(radius)
       THEN /\ points' = KeepInside(poly, points, <<x, y>>)
            /\ y' = Advance(y, GridSpacing(radius))
            /\ WithinScan(y')
            /\ UNCHANGED <<x, pc>>
       ELSE /\ x' = Advance(x, GridSpacing(radius))
            /\ WithinScan(x')
            /\ pc' = "grid_x"
            /\ UNCHANGED <<y, points>>
    /\ UNCHANGED <<poly, gms_radius, safety_factor, solutions, radius,
                   offset_ratio, row, final_points, tp, vertex_pt, i, calls>>
    /\ UNCHANGED verVars
    /\ UNCHANGED winVars
    /\ UNCHANGED <<target, dist>>

(***************************************************************************)
(* calculate_hex_placement                                                 *)
(***************************************************************************)
calculate_hex_placement ==
    /\ pc = "s3"
    /\ points' = <<>>
    /\ row' = 0
    /\ y' = Bounds(poly).miny + radius \div 2
    /\ pc' = "hex_y"
    /\ calls' = Append(calls, <<"calculate_hex_placement", radius>>)
    /\ UNCHANGED <<poly, gms_radius, safety_factor, solutions, radius,
                   offset_ratio, x, final_points, tp, vertex_pt, i>>
    /\ UNCHANGED verVars
    /\ UNCHANGED winVars
    /\ UNCHANGED <<target, dist>>

\* while y < maxy + radius: offset, x = minx + offset + radius/2 ...
hex_outer ==
    /\ pc = "hex_y"
    /\ IF y < Bounds(poly).maxy + radius
       THEN /\ x' = Bounds(poly).minx
                      + (IF row % 2 = 0 THEN 0 ELSE HexSpacingX(radius) \div 2)
                      + radius \div 2
            /\ pc' = "hex_x"
       ELSE /\ pc' = "ensure"
            /\ x' = x
    /\ UNCHANGED <<poly, gms_radius, safety_factor, solutions, radius,
                   offset_ratio, y, row, points, final_points, tp, vertex_pt,
                   i, calls>>
    /\ UNCHANGED verVars
    /\ UNCHANGED winVars
    /\ UNCHANGED <<target, dist>>

\* while x < maxx + radius: keep (x, y) if contained; x += spacing_x
\* after the loop: y += spacing_y; row += 1
hex_inner ==
    /\ pc = "hex_x"
    /\ IF x < Bounds(poly).maxx + radius
       THEN /\ points' = KeepInside(poly, points, <<x, y>>)
            /\ x' = Advance(x, HexSpacingX(radius))
            /\ WithinScan(x')
            /\ UNCHANGED <<y, row, pc>>
       ELSE /\ y' = Advance(y, HexSpacingY(radius))
            /\ WithinScan(y')
            /\ row' = row + 1
            /\ pc' = "hex_y"
            /\ UNCHANGED <<x, points>>
    /\ UNCHANGED <<poly, gms_radius, safety_factor, solutions, radius,
                   offset_ratio, final_points, tp, vertex_pt, i, calls>>
    /\ UNCHANGED verVars
    /\ UNCHANGED winVars
    /\ UNCHANGED <<target, dist>>

(***************************************************************************)
(* ensure_coverage                                                         *)
(***************************************************************************)
\* faulty variant: an empty placement set is not seeded
SeedPoints_NoSeed(pl, pts) == pts

\* faulty variant: the seed is the centroid, inside the polygon or not
SeedPoints_Centroid(pl, pts) == IF pts # <<>> THEN pts ELSE <<Centroid(pl)>>

\* final_points = list(points), seeded when empty with the centroid if the
\* polygon contains it and with the representative point otherwise
SeedPoints(pl, pts) ==
    IF pts # <<>> THEN pts
    ELSE IF Contains(pl, Centroid(pl)) THEN <<Centroid(pl)>>
    ELSE <<RepresentativePoint(pl)>>

ensure_coverage ==
    /\ pc = "ensure"
    /\ final_points' = SeedPoints(poly, points)
    /\ tp' = 1
    /\ pc' = "ensure_loop"
    /\ calls' = Append(calls, <<"ensure_coverage", radius>>)
    /\ UNCHANGED <<poly, gms_radius, safety_factor, solutions, radius,
                   offset_ratio, x, y, row, points, vertex_pt, i>>
    /\ UNCHANGED verVars
    /\ UNCHANGED winVars
    /\ UNCHANGED <<target, dist>>

\* faulty variant: mp is not rebuilt after an insertion
MultiPoint_Stale(fp) == SeedPoints(poly, points)

\* mp = MultiPoint(final_points), rebuilt after every insertion
MultiPoint(fp) == fp

\* the position generate_multiple_solutions continues at after a solution
NextStrategy(n) == IF n = 1 THEN "s2" ELSE IF n = 2 THEN "s3" ELSE "done"

\* for tp in test_points: if mp.distance(pt) > radius: find_internal_spot
\* after the loop: return final_points, and the caller appends the solution
ensure_loop ==
    /\ pc = "ensure_loop"
    /\ IF tp <= Len(ExteriorCoords(poly))
       THEN IF DistanceExceeds(MultiPoint(final_points),
                               ExteriorCoords(poly)[tp], radius)
            THEN /\ vertex_pt' = ExteriorCoords(poly)[tp]
                 /\ pc' = "spot"
                 /\ UNCHANGED <<tp, solutions>>
            ELSE /\ tp' = tp + 1
                 /\ UNCHANGED <<pc, vertex_pt, solutions>>
       ELSE /\ solutions' = Append(solutions,
                    [name |-> Names[Len(solutions) + 1], points |-> final_points])
            /\ pc' = NextStrategy(Len(solutions) + 1)
            /\ UNCHANGED <<tp, vertex_pt>>
    /\ UNCHANGED <<poly, gms_radius, safety_factor, radius, offset_ratio, x, y,
                   row, points, final_points, i, calls>>
    /\ UNCHANGED verVars
    /\ UNCHANGED winVars
    /\ UNCHANGED <<target, dist>>

(***************************************************************************)
(* find_internal_spot                                                      *)
(***************************************************************************)
\* steps = int(dist / 2.0)
SpotSteps(d) == d \div (StepLength * Scale)

\* the candidate of iteration k: vertex_pt + vec * ((k * 2.0) / dist)
Candidate(v, t, d, k) ==
    <<v[1] + ((t[1] - v[1]) * (k * StepLength * Scale)) \div d,
      v[2] + ((t[2] - v[2]) * (k * StepLength * Scale)) \div d>>

\* faulty variant: the candidate is returned without the membership test
CandidateInside_Unchecked(pl, c) == TRUE

\* if poly.contains(candidate)
CandidateInside(pl, c) == Contains(pl, c)

\* faulty variant: the new point is put in front
AppendPoint_Front(fp, pt) == <<pt>> \o fp

\* final_points.append(new_pt)
AppendPoint(fp, pt) == Append(fp, pt)

\* ensure_coverage appends the returned point and goes on with the next vertex
ReturnSpot(pt) ==
    /\ final_points' = AppendPoint(final_points, pt)
    /\ tp' = tp + 1
    /\ pc' = "ensure_loop"

\* target, vec, dist; if dist == 0: return target
find_internal_spot ==
    /\ pc = "spot"
    /\ target' = RepresentativePoint(poly)
    /\ dist' = Hypot(target'[1] - vertex_pt[1], target'[2] - vertex_pt[2])
    /\ IF dist' = 0
       THEN /\ ReturnSpot(target')
            /\ i' = i
       ELSE /\ i' = 1
            /\ pc' = "spot_loop"
            /\ UNCHANGED <<final_points, tp>>
    /\ UNCHANGED <<poly, gms_radius, safety_factor, solutions, radius,
                   offset_ratio, x, y, row, points, vertex_pt, calls>>
    /\ UNCHANGED verVars
    /\ UNCHANGED winVars

\* for i in range(1, steps): return the first contained candidate
\* after the loop: return target
spot_loop ==
    /\ pc = "spot_loop"
    /\ IF i < SpotSteps(dist)
       THEN IF CandidateInside(poly, Candidate(vertex_pt, target, dist, i))
            THEN /\ ReturnSpot(Candidate(vertex_pt, target, dist, i))
                 /\ i' = i
            ELSE /\ i' = i + 1
                 /\ UNCHANGED <<final_points, tp, pc>>
       ELSE /\ ReturnSpot(target)
            /\ i' = i
    /\ UNCHANGED <<poly, gms_radius, safety_factor, solutions, radius,
                   offset_ratio, x, y, row, points, vertex_pt, target, dist,
                   calls>>
    /\ UNCHANGED verVars
    /\ UNCHANGED winVars

(***************************************************************************)
(* check_geometric_coverage.  Areas are measured on a lattice of           *)
(* SamplesPerFoot sample points per foot: the area of a region is the      *)
(* number of sample points strictly inside the polygon that lie in it.     *)
(***************************************************************************)
SamplesPerFoot == 2

SamplePitch == Scale \div SamplesPerFoot

AreaSamples(pl) ==
    LET b == Bounds(pl)
    IN  {p \in {<<b.minx + a * SamplePitch, b.miny + c * SamplePitch>> :
                   a \in 0..((b.maxx - b.minx) \div SamplePitch),
                   c \in 0..((b.maxy - b.miny) \div SamplePitch)} :
            Contains(pl, p)}

\* the polygons and placement lists handed to the verifier
VerifierPolygons == {Rect, Tri, Ell, Sliver}

VerifierPoints ==
    { <<>>,
      <<<<6 * Scale, 4 * Scale>>>>,
      <<<<3 * Scale, 2 * Scale>>, <<7 * Scale, 1 * Scale>>>>,
      <<<<1 * Scale, 7 * Scale>>, <<1 * Scale, 2 * Scale>>,
        <<10 * Scale, 1 * Scale>>>> }

VerifierRadii == {0 - 4, 0, 6, 10, 40}

\* coverage.intersection(poly).area >= poly.area * 0.999
TolerancePermille == 999

\* faulty variant: the radius is divided by the safety factor
VerifierRadius_Divided(r, sf) == (r * 100) \div sf

\* faulty variant: the safety factor is not applied
VerifierRadius_NoFactor(r, sf) == r

\* effective_r = radius * safety_factor
VerifierRadius(r, sf) == (r * sf) \div 100

\* p lies in Point(c).buffer(effective_r); a buffer of radius <= 0 is empty
InCircle(p, c, er) == er > 0 /\ Dist2(p, c) <= er * er

\* p lies in coverage = unary_union(circles)
InCoverage(p, pts, er) == \E n \in 1..Len(pts) : InCircle(p, pts[n], er)

\* coverage.contains(poly)
CoverageContains(pl, pts, er) ==
    /\ \A v \in {ToUnits(pl[k]) : k \in 1..Len(pl)} : InCoverage(v, pts, er)
    /\ \A p \in AreaSamples(pl) : InCoverage(p, pts, er)

\* coverage.intersection(poly).area
IntersectionArea(pl, pts, er) ==
    Cardinality({p \in AreaSamples(pl) : InCoverage(p, pts, er)})

\* poly.area
PolygonArea(pl) == Cardinality(AreaSamples(pl))

\* return coverage.contains(poly) or (intersection area >= poly.area * 0.999)
CoverageAdequate(pl, pts, er) ==
    \/ CoverageContains(pl, pts, er)
    \/ 1000 * IntersectionArea(pl, pts, er) >= TolerancePermille * PolygonArea(pl)

\* a return of the verifier
Returned(er, b) ==
    [called |-> TRUE, effective_r |-> er, ret |-> b, logged |-> FALSE,
     raised |-> FALSE]

\* faulty variant: the exception leaves the verifier
CoverageError_Unhandled(er) ==
    [called |-> TRUE, effective_r |-> er, ret |-> FALSE, logged |-> FALSE,
     raised |-> TRUE]

\* except Exception as e: logging.error(...); return True
CoverageError(er) ==
    [called |-> TRUE, effective_r |-> er, ret |-> TRUE, logged |-> TRUE,
     raised |-> FALSE]

check_geometric_coverage(pl, pts, r, sf, fault) ==
    IF pts = <<>> THEN Returned(VerifierRadius(r, sf), FALSE)
    ELSE IF fault THEN CoverageError(VerifierRadius(r, sf))
    ELSE Returned(VerifierRadius(r, sf),
                  CoverageAdequate(pl, pts, VerifierRadius(r, sf)))

CoverageWarning == "CRITICAL: Extinguisher placement does not fully cover the floor area"

\* update_result: is_covered = self.check_geometric_coverage(...)
\*                if not is_covered: current_warnings.append(...)
\* an exception leaving the verifier would leave update_result before the append
coverage_check ==
    /\ pc = "verify"
    /\ \E r \in VerifierRadii, sf \in SafetyFactors :
          /\ v_radius' = r * Scale
          /\ v_safety_factor' = sf
          /\ verdict' = check_geometric_coverage(v_poly, v_points, r * Scale,
                                                 sf, geometry_fault)
    /\ current_warnings' = IF verdict'.raised \/ verdict'.ret THEN <<>>
                           ELSE <<CoverageWarning>>
    /\ UNCHANGED <<v_poly, v_points, geometry_fault>>
    /\ UNCHANGED coreVars
    /\ UNCHANGED winVars

(***************************************************************************)
(* update_result and the end of run_analysis                               *)
(***************************************************************************)
\* generated_solutions[current_solution_idx] raises no IndexError
ValidIndex(sols, idx) == 0 - Len(sols) <= idx /\ idx < Len(sols)

\* a Python list item: a negative index counts from the end
ListItem(sols, idx) ==
    IF idx >= 0 THEN sols[idx + 1] ELSE sols[Len(sols) + idx + 1]

\* sol = self.generated_solutions[self.current_solution_idx]; pts = sol['points']
\* is_covered = self.check_geometric_coverage(self.last_polygon, pts,
\*                  meta['req_dist'], meta['safety_factor'])
\* if not is_covered: display_meta['current_warnings'].append(...)
\* the record of the verifier is of the handler just run: a handler that
\* does not call it leaves no record
ClearVerifier ==
    /\ v_poly' = Sliver
    /\ v_points' = <<>>
    /\ v_radius' = 0
    /\ v_safety_factor' = 100
    /\ verdict' = NotCalled
    /\ current_warnings' = <<>>
    /\ UNCHANGED geometry_fault

update_result(lp, sols, idx, meta) ==
    IF ~ValidIndex(sols, idx)
    THEN /\ uncaught' = "IndexError"
         /\ ClearVerifier
         /\ UNCHANGED <<prev_enabled, next_enabled>>
    ELSE IF ~meta.set
    THEN /\ uncaught' = "KeyError"
         /\ ClearVerifier
         /\ UNCHANGED <<prev_enabled, next_enabled>>
    ELSE /\ uncaught' = "none"
         /\ v_poly' = lp
         /\ v_points' = ListItem(sols, idx).points
         /\ v_radius' = meta.req_dist
         /\ v_safety_factor' = meta.safety_factor
         /\ verdict' = check_geometric_coverage(lp, v_points', meta.req_dist,
                                                meta.safety_factor, geometry_fault)
         /\ current_warnings' = IF verdict'.ret THEN <<>>
                                ELSE <<CoverageWarning>>
         /\ prev_enabled' = (idx > 0)
         /\ next_enabled' = (idx < Len(sols) - 1)
         /\ UNCHANGED geometry_fault

\* the locals of generate_multiple_solutions and of what it calls
callLocals == <<solutions, radius, offset_ratio, x, y, row, points,
                final_points, tp, vertex_pt, target, dist, i, calls>>

\* run_analysis after generate_multiple_solutions has returned:
\* self.generated_solutions = ...; self.last_analysis_meta = {...}
\* self.current_solution_idx = 0; self.update_result()
run_analysis_finish ==
    /\ pc = "done"
    /\ generated_solutions' = solutions
    /\ last_analysis_meta' = [set |-> TRUE, req_dist |-> gms_radius,
                              safety_factor |-> safety_factor]
    /\ current_solution_idx' = 0
    /\ solutions_poly' = poly
    /\ update_result(last_polygon, generated_solutions', current_solution_idx',
                     last_analysis_meta')
    /\ event' = [handler |-> "run_analysis", arg |-> 0,
                 outcome |-> "Analysis Complete"]
    /\ pc' = "idle"
    /\ UNCHANGED <<cad_points, polygon_closed, drawing_active, last_polygon>>
    /\ UNCHANGED <<poly, gms_radius, safety_factor>>
    /\ UNCHANGED callLocals

(***************************************************************************)
(* The handlers of the window.  One handler runs at a time: pc = "idle"    *)
(* between handlers.                                                       *)
(***************************************************************************)
\* the outlines the user draws, vertex by vertex
Corridor == <<<<0, 0>>, <<32, 0>>, <<32, 2>>, <<0, 2>>>>

Drawings == {Corridor}

\* what the input tab holds when RUN ANALYSIS is clicked: the hazard type,
\* the liquid-area text ("" empty, "5" and "25" numbers, "abc" no number)
HazardInputs ==
    { [type |-> "Class K", liquid |-> ""],
      [type |-> "Appreciable Depth", liquid |-> "5"],
      [type |-> "Appreciable Depth", liquid |-> "25"],
      [type |-> "Appreciable Depth", liquid |-> "abc"] }

\* req_dist of the hazard type, in feet
ReqDist(type) ==
    IF type = "Class K" THEN 30
    ELSE IF type = "Appreciable Depth" THEN 50
    ELSE 75

\* mousePressEvent, left button: self.points.append(pt)
left_click ==
    /\ pc = "idle"
    /\ drawing_active /\ ~polygon_closed
    /\ \E d \in Drawings :
          /\ Len(cad_points) < Len(d)
          /\ SubSeq(d, 1, Len(cad_points)) = cad_points
          /\ cad_points' = Append(cad_points, d[Len(cad_points) + 1])
    /\ event' = [handler |-> "mousePressEvent", arg |-> 1, outcome |-> "none"]
    /\ uncaught' = "none"
    /\ UNCHANGED <<polygon_closed, drawing_active, last_polygon,
                   generated_solutions, current_solution_idx,
                   last_analysis_meta, prev_enabled, next_enabled,
                   solutions_poly>>
    /\ UNCHANGED coreVars
    /\ ClearVerifier

\* mousePressEvent, right button with more than 2 points: close the polygon
right_click ==
    /\ pc = "idle"
    /\ drawing_active /\ ~polygon_closed
    /\ Len(cad_points) > 2
    /\ polygon_closed' = TRUE
    /\ drawing_active' = FALSE
    /\ event' = [handler |-> "mousePressEvent", arg |-> 2, outcome |-> "none"]
    /\ uncaught' = "none"
    /\ UNCHANGED <<cad_points, last_polygon, generated_solutions,
                   current_solution_idx, last_analysis_meta, prev_enabled,
                   next_enabled, solutions_poly>>
    /\ UNCHANGED coreVars
    /\ ClearVerifier

\* CADCanvas.reset
reset ==
    /\ pc = "idle"
    /\ cad_points' = <<>>
    /\ polygon_closed' = FALSE
    /\ drawing_active' = TRUE
    /\ event' = [handler |-> "reset", arg |-> 0, outcome |-> "none"]
    /\ uncaught' = "none"
    /\ UNCHANGED <<last_polygon, generated_solutions, current_solution_idx,
                   last_analysis_meta, prev_enabled, next_enabled,
                   solutions_poly>>
    /\ UNCHANGED coreVars
    /\ ClearVerifier

\* a return of run_analysis before the call of generate_multiple_solutions
Abort(outcome, exception) ==
    /\ event' = [handler |-> "run_analysis", arg |-> 0, outcome |-> outcome]
    /\ uncaught' = exception
    /\ UNCHANGED <<cad_points, polygon_closed, drawing_active,
                   generated_solutions, current_solution_idx,
                   last_analysis_meta, prev_enabled, next_enabled,
                   solutions_poly>>
    /\ UNCHANGED coreVars
    /\ ClearVerifier

\* run_analysis up to its call of generate_multiple_solutions
run_analysis ==
    /\ pc = "idle"
    /\ IF Len(cad_points) < 3
       THEN /\ Abort("Draw a closed area first.", "none")
            /\ UNCHANGED last_polygon
       ELSE \E h \in HazardInputs, sf \in SafetyFactors :
              /\ last_polygon' = cad_points
              /\ IF h.type = "Appreciable Depth" /\ h.liquid = "abc"
                 THEN Abort("none", "ValueError")
                 ELSE IF h.type = "Appreciable Depth" /\ h.liquid = "25"
                 THEN Abort("Code Violation", "none")
                 ELSE /\ poly' = cad_points
                      /\ gms_radius' = ReqDist(h.type) * Scale
                      /\ safety_factor' = sf
                      /\ pc' = "call"
                      /\ solutions' = <<>>
                      /\ radius' = 0
                      /\ offset_ratio' = 0
                      /\ x' = 0
                      /\ y' = 0
                      /\ row' = 0
                      /\ points' = <<>>
                      /\ final_points' = <<>>
                      /\ tp' = 1
                      /\ vertex_pt' = <<0, 0>>
                      /\ target' = <<0, 0>>
                      /\ dist' = 0
                      /\ i' = 0
                      /\ calls' = <<>>
                      /\ event' = [handler |-> "run_analysis", arg |-> 0,
                                   outcome |-> "running"]
                      /\ uncaught' = "none"
                      /\ UNCHANGED <<cad_points, polygon_closed, drawing_active,
                                     generated_solutions, current_solution_idx,
                                     last_analysis_meta, prev_enabled,
                                     next_enabled, solutions_poly>>
                      /\ ClearVerifier

\* faulty variant: the index is not clamped
Saturate_Unclamped(n, idx) == idx

\* max(0, min(len(self.generated_solutions)-1, ...))
Saturate(n, idx) == Max2(0, Min2(n - 1, idx))

\* change_sol(delta), from prev_btn (delta = -1) and next_btn (delta = 1)
change_sol ==
    /\ pc = "idle"
    /\ \E delta \in {0 - 1, 1} :
          /\ IF delta = 1 THEN next_enabled ELSE prev_enabled
          /\ current_solution_idx' =
                 Saturate(Len(generated_solutions), current_solution_idx + delta)
          /\ event' = [handler |-> "change_sol", arg |-> delta, outcome |-> "none"]
    /\ update_result(last_polygon, generated_solutions, current_solution_idx',
                     last_analysis_meta)
    /\ UNCHANGED <<cad_points, polygon_closed, drawing_active, last_polygon,
                   generated_solutions, last_analysis_meta, solutions_poly>>
    /\ UNCHANGED coreVars

\* export_pdf: without a file name it returns; else it reads
\* generated_solutions[current_solution_idx] and calls the verifier
export_pdf ==
    /\ pc = "idle"
    /\ \E named \in BOOLEAN :
          IF ~named
          THEN /\ event' = [handler |-> "export_pdf", arg |-> 0, outcome |-> "none"]
               /\ uncaught' = "none"
               /\ ClearVerifier
          ELSE IF ~ValidIndex(generated_solutions, current_solution_idx)
          THEN /\ event' = [handler |-> "export_pdf", arg |-> 1, outcome |-> "none"]
               /\ uncaught' = "IndexError"
               /\ ClearVerifier
          ELSE /\ event' = [handler |-> "export_pdf", arg |-> 1,
                            outcome |-> "Report exported successfully!"]
               /\ uncaught' = "none"
               /\ v_poly' = last_polygon
               /\ v_points' = ListItem(generated_solutions,
                                       current_solution_idx).points
               /\ v_radius' = last_analysis_meta.req_dist
               /\ v_safety_factor' = last_analysis_meta.safety_factor
               /\ verdict' = check_geometric_coverage(last_polygon, v_points',
                                 last_analysis_meta.req_dist,
                                 last_analysis_meta.safety_factor, geometry_fault)
               /\ UNCHANGED <<geometry_fault, current_warnings>>
    /\ UNCHANGED <<cad_points, polygon_closed, drawing_active, last_polygon,
                   generated_solutions, current_solution_idx,
                   last_analysis_meta, prev_enabled, next_enabled,
                   solutions_poly>>
    /\ UNCHANGED coreVars

(***************************************************************************)
(* Specification: one call of generate_multiple_solutions on any of the    *)
(* polygons with any of the radii and safety factors                       *)
(***************************************************************************)
Init ==
    /\ pc = "call"
    /\ poly \in Polygons
    /\ gms_radius \in {r * Scale : r \in BaseRadii}
    /\ safety_factor \in SafetyFactors
    /\ solutions = <<>>
    /\ radius = 0
    /\ offset_ratio = 0
    /\ x = 0
    /\ y = 0
    /\ row = 0
    /\ points = <<>>
    /\ final_points = <<>>
    /\ tp = 1
    /\ vertex_pt = <<0, 0>>
    /\ target = <<0, 0>>
    /\ dist = 0
    /\ i = 0
    /\ calls = <<>>
    /\ VerifierIdle
    /\ WindowIdle

Next ==
    \/ generate_multiple_solutions
    \/ calculate_grid_placement
    \/ grid_outer
    \/ grid_inner
    \/ calculate_hex_placement
    \/ hex_outer
    \/ hex_inner
    \/ ensure_coverage
    \/ ensure_loop
    \/ find_internal_spot
    \/ spot_loop

vars == <<coreVars, verVars, winVars>>

Spec == Init /\ [][Next]_vars

(***************************************************************************)
(* Specification of the verifier: calls of check_geometric_coverage, as    *)
(* update_result makes them, on one polygon and one placement list with    *)
(* any radius and safety factor                                            *)
(***************************************************************************)
VerifyInit ==
    /\ pc = "verify"
    /\ poly = Rect
    /\ gms_radius = 0
    /\ safety_factor = 100
    /\ solutions = <<>>
    /\ radius = 0
    /\ offset_ratio = 0
    /\ x = 0
    /\ y = 0
    /\ row = 0
    /\ points = <<>>
    /\ final_points = <<>>
    /\ tp = 1
    /\ vertex_pt = <<0, 0>>
    /\ target = <<0, 0>>
    /\ dist = 0
    /\ i = 0
    /\ calls = <<>>
    /\ v_poly \in VerifierPolygons
    /\ v_points \in VerifierPoints
    /\ v_radius = 0
    /\ v_safety_factor = 100
    /\ geometry_fault \in BOOLEAN
    /\ verdict = NotCalled
    /\ current_warnings = <<>>
    /\ WindowIdle

VerifyNext == coverage_check

VerifySpec == VerifyInit /\ [][VerifyNext]_vars

\* the program runs a call to its end: no step of it waits for anything
FairSpec == Spec /\ WF_vars(Next)

(***************************************************************************)
(* Specification of the end-to-end scenarios: run_analysis from its call   *)
(* of generate_multiple_solutions on, for the 100 x 50 rectangle with      *)
(* effective radius 40 and 5                                               *)
(***************************************************************************)
Hall == <<<<0, 0>>, <<100, 0>>, <<100, 50>>, <<0, 50>>>>

\* <<radius in feet, safety factor in percent>> of the calls
HallCalls == {<<40, 100>>, <<80, 50>>, <<5, 100>>, <<10, 50>>}

HallInit ==
    /\ pc = "call"
    /\ poly = Hall
    /\ \E c \in HallCalls : gms_radius = c[1] * Scale /\ safety_factor = c[2]
    /\ solutions = <<>>
    /\ radius = 0
    /\ offset_ratio = 0
    /\ x = 0
    /\ y = 0
    /\ row = 0
    /\ points = <<>>
    /\ final_points = <<>>
    /\ tp = 1
    /\ vertex_pt = <<0, 0>>
    /\ target = <<0, 0>>
    /\ dist = 0
    /\ i = 0
    /\ calls = <<>>
    /\ VerifierIdle
    /\ cad_points = Hall
    /\ polygon_closed = TRUE
    /\ drawing_active = FALSE
    /\ last_polygon = Hall
    /\ generated_solutions = <<>>
    /\ current_solution_idx = 0
    /\ last_analysis_meta = NoMeta
    /\ prev_enabled = TRUE
    /\ next_enabled = TRUE
    /\ uncaught = "none"
    /\ event = NoEvent
    /\ solutions_poly = <<>>

HallNext == Next \/ run_analysis_finish

HallSpec == HallInit /\ [][HallNext]_vars

(***************************************************************************)
(* Specification of the window: from application start, any sequence of    *)
(* drawing, reset, run analysis, previous / next option and export         *)
(***************************************************************************)
WindowInit ==
    /\ pc = "idle"
    /\ poly = <<>>
    /\ gms_radius = 0
    /\ safety_factor = 100
    /\ solutions = <<>>
    /\ radius = 0
    /\ offset_ratio = 0
    /\ x = 0
    /\ y = 0
    /\ row = 0
    /\ points = <<>>
    /\ final_points = <<>>
    /\ tp = 1
    /\ vertex_pt = <<0, 0>>
    /\ target = <<0, 0>>
    /\ dist = 0
    /\ i = 0
    /\ calls = <<>>
    /\ VerifierIdle
    /\ WindowIdle

WindowNext ==
    \/ left_click
    \/ right_click
    \/ reset
    \/ run_analysis
    \/ Next
    \/ run_analysis_finish
    \/ change_sol
    \/ export_pdf

WindowSpec == WindowInit /\ [][WindowNext]_vars

(***************************************************************************)
(* Claims about generate_multiple_solutions and what it calls              *)
(***************************************************************************)
\* the boundary vertices of the polygon, in units
Vertices(pl) == {ToUnits(pl[k]) : k \in 1..Len(pl)}

\* the effective radius of the call in progress
CallRadius == (gms_radius * safety_factor) \div 100

\* C1: for a convex polygon and a radius r > 0, every boundary vertex is
\* within r of some point of every placement set ensure_coverage has returned.
C1_VerticesCovered ==
    (IsConvex(poly) /\ CallRadius > 0) =>
        \A k \in 1..Len(solutions) : \A v \in Vertices(poly) :
            \E n \in 1..Len(solutions[k].points) :
                Dist2(solutions[k].points[n], v) <= CallRadius * CallRadius

\* C2: for a positive radius the call returns exactly three solutions, named
\* Standard Grid, Offset Grid, Hexagonal Packing in that order, and made
\* exactly these calls: each generator, then ensure_coverage, all with the
\* effective radius radius * safety_factor.
C2_ThreeSolutionsInOrder ==
    (pc = "done" /\ CallRadius > 0) =>
        /\ Len(solutions) = 3
        /\ solutions[1].name = "Option A: Standard Grid"
        /\ solutions[2].name = "Option B: Offset Grid"
        /\ solutions[3].name = "Option C: Hexagonal Packing"
        /\ calls = << <<"calculate_grid_placement", CallRadius, 0>>,
                      <<"ensure_coverage", CallRadius>>,
                      <<"calculate_grid_placement", CallRadius, 50>>,
                      <<"ensure_coverage", CallRadius>>,
                      <<"calculate_hex_placement", CallRadius>>,
                      <<"ensure_coverage", CallRadius>> >>

\* C2 witness: a call with a safety factor below 1 has returned
C2_Witness ==
    /\ pc = "done"
    /\ CallRadius > 0
    /\ safety_factor = 50
    /\ Len(solutions) = 3

\* C3: for a polygon of positive area and r > 0, every solution has at
\* least one placement point.
C3_SolutionsNonEmpty ==
    (Area2(poly) # 0 /\ CallRadius > 0) =>
        \A k \in 1..Len(solutions) : Len(solutions[k].points) >= 1

\* C3 witness: the first generator found no lattice point inside the polygon
\* and its solution holds a point all the same
C3_Witness ==
    /\ pc = "s2"
    /\ CallRadius > 0
    /\ points = <<>>
    /\ Len(solutions) = 1
    /\ Len(solutions[1].points) >= 1

\* C4: find_internal_spot terminates, and the point it returns (the one
\* ensure_coverage appends) is strictly inside the polygon.
C4_SpotInsideAndTerminates ==
    /\ [][(pc \in {"spot", "spot_loop"} /\ pc' = "ensure_loop") =>
            /\ Len(final_points') = Len(final_points) + 1
            /\ Contains(poly, final_points'[Len(final_points')])]_vars
    /\ (pc = "spot") ~> (pc = "ensure_loop")

\* C4 witness: the search has returned its fallback, having tested candidates
C4_Witness ==
    /\ pc = "ensure_loop"
    /\ i >= 1
    /\ final_points # <<>>
    /\ final_points[Len(final_points)] = RepresentativePoint(poly)
    /\ Len(final_points) >= 2

\* C5: for a radius parameter r > 0 both generators terminate: each pass of a
\* scan loop strictly increases its scan variable, and every scan reaches the
\* call of ensure_coverage.
C5_GeneratorsTerminate ==
    /\ [][(radius > 0 /\ pc = "grid_y" /\ pc' = "grid_y") => y' > y]_vars
    /\ [][(radius > 0 /\ pc = "grid_y" /\ pc' = "grid_x") => x' > x]_vars
    /\ [][(radius > 0 /\ pc = "hex_x" /\ pc' = "hex_x") => x' > x]_vars
    /\ [][(radius > 0 /\ pc = "hex_x" /\ pc' = "hex_y") => y' > y]_vars
    /\ (radius > 0 /\ pc \in {"grid_x", "grid_y", "hex_x", "hex_y"})
           ~> (pc = "ensure")

\* C5 witness: all three scans of a call with r > 0 have ended, with points found
C5_Witness ==
    /\ pc = "done"
    /\ CallRadius > 0
    /\ points # <<>>
    /\ row > 1

\* C6: a call with a non-positive effective radius ends in InvalidRadiusError:
\* it makes no scan and returns no placement set.
C6_NonPositiveRadiusRejected ==
    CallRadius <= 0 =>
        /\ pc \in {"call", "InvalidRadiusError"}
        /\ solutions = <<>>

(***************************************************************************)
(* Claims about check_geometric_coverage                                   *)
(***************************************************************************)
\* C7: with the polygon and the placement set fixed, a call that returns
\* true at effective radius r1 is followed only by true at any r2 >= r1.
C7_MonotonicInRadius ==
    [][(/\ verdict.called /\ verdict'.called
        /\ (v_radius * v_safety_factor) \div 100
               <= (v_radius' * v_safety_factor') \div 100
        /\ verdict.ret)
          => verdict'.ret]_vars

\* C7 witness: the set is adequate at a radius below the largest, because of
\* the radius: at half of it the set is not adequate
C7_Witness ==
    /\ verdict.called
    /\ ~geometry_fault
    /\ verdict.ret
    /\ 0 < v_radius
    /\ (v_radius * v_safety_factor) \div 100 < 40 * Scale
    /\ ~CoverageAdequate(v_poly, v_points, v_radius \div 4)

\* C8: the verifier reports adequate only for a non-empty placement set and
\* an effective radius > 0.
C8_AdequateOnlyIfPointsAndRadius ==
    (verdict.called /\ verdict.ret) =>
        (v_points # <<>> /\ (v_radius * v_safety_factor) \div 100 > 0)

\* C9: a failure of the geometry operations, with a non-empty placement set,
\* does not leave the verifier: it is logged, the verifier returns true and
\* update_result adds no coverage warning.
C9_FailureCaught ==
    (verdict.called /\ geometry_fault /\ v_points # <<>>) =>
        /\ ~verdict.raised
        /\ verdict.logged
        /\ verdict.ret
        /\ current_warnings = <<>>

\* C9 witness: the verifier was called on a non-empty set and the geometry failed
C9_Witness ==
    /\ verdict.called
    /\ geometry_fault
    /\ v_points # <<>>
    /\ verdict.logged

\* C10: for a non-empty placement set and no failure, the verifier returns
\* true exactly when the union of the disks of radius radius * safety_factor
\* around the placement points contains the polygon, or covers at least
\* 99.9% of its area.
C10_AdequateIffCovered ==
    (verdict.called /\ ~geometry_fault /\ v_points # <<>>) =>
        LET er == (v_radius * v_safety_factor) \div 100
            inUnion(p) == /\ er > 0
                          /\ \E n \in 1..Len(v_points) :
                                 Dist2(p, v_points[n]) <= er * er
            inside == AreaSamples(v_poly)
            covered == {p \in inside : inUnion(p)}
        IN  verdict.ret <=>
                \/ \A p \in inside \cup Vertices(v_poly) : inUnion(p)
                \/ 1000 * Cardinality(covered) >= 999 * Cardinality(inside)

\* C10 witness: a set found inadequate at a positive radius with a safety
\* factor below 1, on a polygon of positive area
C10_Witness ==
    /\ verdict.called /\ ~geometry_fault /\ v_points # <<>>
    /\ v_safety_factor = 50
    /\ v_radius > 0
    /\ ~verdict.ret
    /\ Area2(v_poly) # 0

(***************************************************************************)
(* Claims about the end-to-end scenarios                                   *)
(***************************************************************************)
\* C11: for the 100 x 50 rectangle and effective radius 40 the Standard Grid
\* solution has fewer than 6 points and the verifier, called on it with the
\* rectangle, returns true.
C11_HallRadius40 ==
    (pc = "idle" /\ CallRadius = 40 * Scale) =>
        /\ generated_solutions[1].name = "Option A: Standard Grid"
        /\ Len(generated_solutions[1].points) < 6
        /\ verdict.called
        /\ v_poly = Hall
        /\ v_points = generated_solutions[1].points
        /\ (v_radius * v_safety_factor) \div 100 = 40 * Scale
        /\ verdict.ret

\* C11 witness: the scenario has run with a safety factor below 1, and its
\* Standard Grid solution holds points the repair inserted
C11_Witness ==
    /\ pc = "idle"
    /\ CallRadius = 40 * Scale
    /\ safety_factor = 50
    /\ verdict.called
    /\ Len(generated_solutions[1].points) > 1

\* C12: for the 100 x 50 rectangle and effective radius 5, every vertex of
\* the rectangle is within 5 of a point of each repaired placement set, and
\* each set has more than 20 points.
C12_HallRadius5 ==
    (pc = "idle" /\ CallRadius = 5 * Scale) =>
        \A k \in 1..Len(generated_solutions) :
            /\ \A v \in Vertices(Hall) :
                   \E n \in 1..Len(generated_solutions[k].points) :
                       Dist2(generated_solutions[k].points[n], v)
                           <= (5 * Scale) * (5 * Scale)
            /\ Len(generated_solutions[k].points) > 20

\* C12 witness: the scenario has run, and its Standard Grid solution holds
\* more points than its generator found
C12_Witness ==
    /\ pc = "idle"
    /\ CallRadius = 5 * Scale
    /\ Len(generated_solutions) = 3
    /\ calls # <<>>
    /\ Len(generated_solutions[3].points) > Len(points)

(***************************************************************************)
(* Claims about ensure_coverage, find_internal_spot and the grid           *)
(***************************************************************************)
\* the name of the generator whose points are being repaired or scanned
LastGenerator ==
    IF calls = <<>> THEN "none"
    ELSE IF calls[Len(calls)][1] = "ensure_coverage"
    THEN calls[Len(calls) - 1][1]
    ELSE calls[Len(calls)][1]

\* C14: for r > 0, the vertex ensure_coverage is at triggers an insertion
\* exactly when its distance to the nearest point of the set grown so far
\* exceeds r; otherwise the loop moves on and the set stays as it is.
C14_InsertionIffUncovered ==
    [][(/\ pc = "ensure_loop" /\ radius > 0 /\ final_points # <<>>
        /\ tp <= Len(ExteriorCoords(poly)))
         => IF NearestDist2(final_points, ExteriorCoords(poly)[tp])
                   > radius * radius
            THEN pc' = "spot" /\ vertex_pt' = ExteriorCoords(poly)[tp]
            ELSE (/\ pc' = "ensure_loop" /\ tp' = tp + 1
                  /\ final_points' = final_points)]_vars

\* C14 witness: the loop has ended, and fewer points were inserted than there
\* are vertices farther than r from the set the generator handed over: a
\* point inserted for an earlier vertex covered a later one
C14_Witness ==
    /\ pc = "ensure_loop" /\ radius > 0
    /\ tp > Len(ExteriorCoords(poly))
    /\ Len(final_points) > Len(SeedPoints(poly, points))
    /\ Cardinality({k \in 1..Len(ExteriorCoords(poly)) :
                       DistanceExceeds(SeedPoints(poly, points),
                                       ExteriorCoords(poly)[k], radius)})
           > Len(final_points) - Len(SeedPoints(poly, points))

\* C15: ensure_coverage only appends: the generator's points are a prefix of
\* final_points, in scan order (by x then y for the grid, by y then x for the
\* hexagonal rows); every step of the repair leaves the generator's list
\* alone and either leaves final_points alone or adds one point at its end.
C15_RepairOnlyAppends ==
    /\ [](pc \in {"ensure_loop", "spot", "spot_loop"} =>
            /\ Len(final_points) >= Len(points)
            /\ SubSeq(final_points, 1, Len(points)) = points)
    /\ [](\A a \in 1..Len(points) : \A b \in 1..Len(points) :
            a < b =>
              IF LastGenerator = "calculate_hex_placement"
              THEN \/ points[a][2] < points[b][2]
                   \/ points[a][2] = points[b][2] /\ points[a][1] < points[b][1]
              ELSE \/ points[a][1] < points[b][1]
                   \/ points[a][1] = points[b][1] /\ points[a][2] < points[b][2])
    /\ [][(pc \in {"ensure", "ensure_loop", "spot", "spot_loop"}) =>
            (/\ points' = points
             /\ pc # "ensure" =>
                  (\/ final_points' = final_points
                   \/ /\ Len(final_points') = Len(final_points) + 1
                      /\ SubSeq(final_points', 1, Len(final_points))
                             = final_points))]_vars

\* C15 witness: the repair of a non-empty generator set has ended with
\* points inserted behind it
C15_Witness ==
    /\ pc = "ensure_loop"
    /\ tp > Len(ExteriorCoords(poly))
    /\ Len(points) >= 2
    /\ Len(final_points) >= Len(points) + 2

\* C16: find_internal_spot returns the first candidate inside the polygon
\* among those at distance 2k from the vertex, k = 1, 2, ... while 2k < d;
\* it returns target exactly when d = 0 or none of them is inside.
C16_FirstInteriorCandidate ==
    [][(pc \in {"spot", "spot_loop"} /\ pc' = "ensure_loop") =>
         LET d2 == Dist2(vertex_pt, target')
             steps == {k \in 1..(dist' \div (StepLength * Scale) + 1) :
                          (k * StepLength * Scale) * (k * StepLength * Scale) < d2}
             inside == {k \in steps :
                           Contains(poly, Candidate(vertex_pt, target', dist', k))}
             returned == final_points'[Len(final_points')]
         IN  IF d2 = 0 \/ inside = {}
             THEN returned = target'
             ELSE (/\ returned = Candidate(vertex_pt, target', dist', SetMin(inside))
                   /\ returned # target')]_vars

\* C17: for a spacing s > 0, when the scan of calculate_grid_placement ends
\* its points are exactly the lattice points (minx + o*s + a*s,
\* miny + o*s + b*s) with x < maxx + s and y < maxy + s strictly inside the
\* polygon, each once; none lies on the boundary.
C17_GridLattice ==
    (pc = "ensure" /\ LastGenerator = "calculate_grid_placement" /\ radius > 0) =>
        LET s == (radius * GridFactorMilli * ShrinkPercent) \div 100000
            b == Bounds(poly)
            sx == b.minx + (s * offset_ratio) \div 100
            sy == b.miny + (s * offset_ratio) \div 100
            lattice == {<<sx + m * s, sy + n * s>> :
                           m \in 0..((b.maxx - b.minx) \div s + 1),
                           n \in 0..((b.maxy - b.miny) \div s + 1)}
            kept == {q \in lattice : /\ q[1] < b.maxx + s
                                     /\ q[2] < b.maxy + s
                                     /\ ~OnBoundary(poly, q)
                                     /\ CrossingCount(poly, q) % 2 = 1}
        IN  /\ {points[k] : k \in 1..Len(points)} = kept
            /\ Len(points) = Cardinality(kept)

\* C17 witness: a scan has ended with points found, while lattice points on
\* the boundary of the polygon were left out
C17_Witness ==
    /\ pc = "ensure" /\ LastGenerator = "calculate_grid_placement"
    /\ radius > 0
    /\ Len(points) >= 2
    /\ \E m \in 1..20 :
          LET q == <<GridStart(Bounds(poly).minx, GridSpacing(radius), offset_ratio)
                         + m * GridSpacing(radius),
                     GridStart(Bounds(poly).miny, GridSpacing(radius), offset_ratio)>>
          IN  OnBoundary(poly, q) /\ \A k \in 1..Len(points) : points[k] # q

\* C18: ensure_coverage starts from the generator's points when there are
\* any, and otherwise from exactly one point: the centroid if the polygon
\* contains it, else the representative point.
C18_SeedWhenEmpty ==
    [][(pc = "ensure") =>
         (/\ tp' = 1
          /\ IF points # <<>> THEN final_points' = points
             ELSE IF Contains(poly, Centroid(poly))
             THEN final_points' = <<Centroid(poly)>>
             ELSE (/\ final_points' = <<RepresentativePoint(poly)>>
                   /\ Contains(poly, final_points'[1])))]_vars

\* C18 witness: an empty set was seeded with the representative point, the
\* centroid lying outside the polygon
C18_Witness ==
    /\ pc = "ensure_loop"
    /\ tp = 1
    /\ points = <<>>
    /\ ~Contains(poly, Centroid(poly))
    /\ final_points = <<RepresentativePoint(poly)>>

(***************************************************************************)
(* Claims about the window                                                 *)
(***************************************************************************)
\* C13: between handlers the analysis state is of one run: last_polygon is
\* the polygon generated_solutions was made from (both unset before the first
\* completed run), also after a run_analysis that aborts, and the polygon
\* update_result and export_pdf hand to the verifier is that polygon.
C13_AnalysisStateWholesale ==
    pc = "idle" =>
        /\ last_polygon = solutions_poly
        /\ verdict.called => v_poly = solutions_poly

\* C19: a run_analysis that completes selects index 0; every change_sol(delta)
\* sets the index to max(0, min(len - 1, index + delta)) and leaves the
\* solutions alone; once solutions exist, 0 <= index <= len - 1.
C19_PagingSaturates ==
    /\ [][(pc = "done" /\ pc' = "idle") => current_solution_idx' = 0]_vars
    /\ [][(pc = "idle" /\ pc' = "idle" /\ event'.handler = "change_sol") =>
            /\ current_solution_idx' =
                   Max2(0, Min2(Len(generated_solutions) - 1,
                                current_solution_idx + event'.arg))
            /\ generated_solutions' = generated_solutions]_vars
    /\ [](generated_solutions # <<>> =>
            /\ 0 <= current_solution_idx
            /\ current_solution_idx <= Len(generated_solutions) - 1)

\* C19 witness: paging forward has reached the last solution of a completed
\* run, and the next button is off
C19_Witness ==
    /\ pc = "idle"
    /\ event.handler = "change_sol"
    /\ event.arg = 1
    /\ Len(generated_solutions) = 3
    /\ current_solution_idx = 2
    /\ ~next_enabled
    /\ verdict.called

\* C20: no handler ends in an IndexError: every read of
\* generated_solutions[current_solution_idx] uses a valid index.
C20_IndexAlwaysValid == uncaught # "IndexError"

(***************************************************************************)
(* Claims about where the points lie, the size of the repair and the       *)
(* closed outline                                                          *)
(***************************************************************************)
\* every point of the sequence is strictly inside the polygon
AllInside(pl, pts) == \A k \in 1..Len(pts) : Contains(pl, pts[k])

\* C21: every point of every placement set lies inside the polygon: the
\* lattice points a generator keeps, the seed, every point the repair
\* inserts, and so every point of every solution returned.
C21_PointsInside ==
    /\ AllInside(poly, points)
    /\ AllInside(poly, final_points)
    /\ \A k \in 1..Len(solutions) : AllInside(poly, solutions[k].points)

\* C21 witness: a call has returned a solution that holds lattice points
\* and, behind them, both a contained candidate and the representative
\* point inserted by the repair
C21_Witness ==
    /\ pc = "done"
    /\ Len(points) >= 1
    /\ Len(final_points) >= Len(points) + 2
    /\ solutions[3].points = final_points
    /\ \E k \in (Len(points) + 1)..Len(final_points) :
           final_points[k] = RepresentativePoint(poly)
    /\ \E k \in (Len(points) + 1)..Len(final_points) :
           final_points[k] # RepresentativePoint(poly)

\* C22: for r > 0 the repair inserts at most one point per distinct vertex:
\* while it runs and when it ends, final_points has at most as many points
\* as the seeded initial set plus the number of distinct vertices, and the
\* closing vertex of the ring, a repeat of the first, causes no insertion.
C22_OneInsertionPerVertex ==
    (pc \in {"ensure_loop", "spot", "spot_loop"} /\ radius > 0) =>
        /\ Len(final_points) <= Len(SeedPoints(poly, points)) + Len(poly)
        /\ pc \in {"spot", "spot_loop"} => tp <= Len(poly)

\* C23: solutions are generated only for a closed outline: no step of the
\* window leaves it inside generate_multiple_solutions unless polygon_closed
\* is set; a run_analysis on an outline that is not closed reports 'Draw a
\* closed area first.' and leaves the analysis state as it was; a closed
\* outline has at least 3 points and takes no further point until reset.
C23_OnlyClosedArea ==
    [][(/\ (pc' # "idle") => polygon_closed'
        /\ (pc = "idle" /\ ~polygon_closed /\ event'.handler = "run_analysis") =>
              (/\ pc' = "idle"
               /\ event'.outcome = "Draw a closed area first."
               /\ generated_solutions' = generated_solutions
               /\ current_solution_idx' = current_solution_idx
               /\ last_analysis_meta' = last_analysis_meta
               /\ last_polygon' = last_polygon)
        /\ polygon_closed' => Len(cad_points') >= 3
        /\ (polygon_closed /\ polygon_closed') => cad_points' = cad_points)]_vars

=============================================================================
